---- MODULE Spec2Model ----
(***************************************************************************)
(* The stateful ticket-booking agent of agent_state_tracking: the LangGraph *)
(* loop assistant -> pre_tool -> tools -> post_tool -> assistant of         *)
(* stateful_agent.py, the streaming observer run_stateful_trial with its    *)
(* de-duplicated message list, the booking tools and their JSON stores, and *)
(* the trial driver run_single_trial / main of experiment.py with the goal  *)
(* predicate _detect_success.                                               *)
(***************************************************************************)
EXTENDS Naturals, Sequences, FiniteSets, TLC

VARIABLES
    menu,             \* the requests the model may emit in this run (a bound on the LLM)
    recursion_limit,  \* --recursion-limit, handed to graph.stream
    trials,           \* --trials
    pc,               \* where main / run_single_trial stands
    run_id,           \* main's loop variable i
    node,             \* the graph node that runs next
    step,             \* supersteps the graph has executed in this trial
    decides,          \* executions of the assistant node in this trial
    calls,            \* requests emitted so far in this trial (bounded by MaxCalls)
    messages,         \* gs["messages"], the graph's message channel
    state,            \* gs["state"], the structured Trial State
    all_messages,     \* run_stateful_trial's accumulated transcript
    seen,             \* run_stateful_trial's set of message signatures
    flights,          \* flight_bookings.json as an insertion-ordered list of records
    hotels,           \* hotel_bookings.json as an insertion-ordered list of records
    exc,              \* str(e) of the exception that ended the trial, "" if none
    report,           \* what run_single_trial returned for the trial
    goal,             \* the verdict of the last _detect_success evaluation
    context           \* the messages the assistant node last handed to the LLM

vars == <<menu, recursion_limit, trials, pc, run_id, node, step,
          decides, calls, messages, state, all_messages, seen, flights, hotels,
          exc, report, goal, context>>

-----------------------------------------------------------------------------
(* Bounds of the model.                                                    *)

MaxCalls == 3     \* requests the model emits in one trial
MaxBatch == 2     \* requests in one AIMessage
MaxTrials == 2    \* largest --trials tried
MaxLimit == 9     \* largest small --recursion-limit tried
MaxRecs == 2      \* records per store when the goal predicate is checked alone

-----------------------------------------------------------------------------
(* Values.  Python's None is NoneStr where a string may stand and None     *)
(* where a dict may stand; an argument the model left out is Missing; a    *)
(* non-empty JSON array given where a string is expected is ListVal.       *)

NoneStr == "<None>"
None == [t |-> "None"]
Missing == "<missing>"
ListVal == "<list>"

IsStr(v) == v \notin {Missing, ListVal, NoneStr}

\* Python's  v or ""  for an argument value
OrEmpty(v) == IF v \in {Missing, NoneStr, ""} THEN "" ELSE v

\* dict.get(key): the value, or None when the key is absent
Get(d, k) == IF k \in DOMAIN d THEN d[k] ELSE NoneStr

\* dict.get(key, default)
GetOr(d, k, default) == IF k \in DOMAIN d THEN d[k] ELSE default

\* str(v) as _detect_success applies it to a stored field
Str(v) == IF v = NoneStr THEN "None" ELSE v

RECURSIVE SeqSum(_)
SeqSum(s) == IF s = <<>> THEN 0 ELSE Head(s) + SeqSum(Tail(s))

-----------------------------------------------------------------------------
(* utils/helpers.py                                                        *)

SPAN_MAP ==
    (<<"2025-10-01", "2025-10-08">> :> "_01_08") @@
    (<<"2025-10-02", "2025-10-09">> :> "_02_09") @@
    (<<"2025-10-03", "2025-10-10">> :> "_03_10")

ACCEPTED_START == "2025-10-03"
ACCEPTED_END == "2025-10-10"

TypeError == "unhashable type: 'list'"

\* SPAN_MAP.get(((start or ""), (end or ""))): the suffix, None for a pair
\* that is no key, and a TypeError when the tuple holds a list and so
\* cannot be hashed.
_span_suffix(start, end) ==
    LET k == <<OrEmpty(start), OrEmpty(end)>>
    IN  IF ListVal \in {k[1], k[2]} THEN TypeError
        ELSE IF k \in DOMAIN SPAN_MAP THEN SPAN_MAP[k]
        ELSE NoneStr

IsDict(data) == data.t \in {"flight", "hotel", "weather", "error", "currency"}

IsCorrectSpanAnyDict(tool_name, data) ==
    IsDict(data) /\ tool_name \in {"book_hotel", "book_flight"}

_is_correct_span_for_tool(tool_name, data) ==
    IF ~IsDict(data) THEN FALSE
    ELSE IF tool_name = "book_hotel"
         THEN Get(data, "check_in") = ACCEPTED_START
              /\ Get(data, "check_out") = ACCEPTED_END
    ELSE IF tool_name = "book_flight"
         THEN Get(data, "departure") = ACCEPTED_START
              /\ (IF Get(data, "ret") \notin {NoneStr, ""}
                  THEN Get(data, "ret") ELSE Get(data, "return_date")) = ACCEPTED_END
    ELSE FALSE

-----------------------------------------------------------------------------
(* The data files under data/ that the tools read.  One offer per file.    *)

CITY_CODE_BY_NAME == ("Bangkok" :> "BKK") @@ ("Dubai" :> "DXB") @@ ("Reykjavik" :> "REK")

CityCodes == {CITY_CODE_BY_NAME[n] : n \in DOMAIN CITY_CODE_BY_NAME}

SUMMARY_BY_CITY ==
    ("Bangkok" :> "Hot, humid, lots of rain") @@
    ("Dubai" :> "Very hot, dry, no rain") @@
    ("Reykjavik" :> "Very cold with snow, little rain")

\* str.title() on the city names the model uses
Title(city) == IF city = "bangkok" THEN "Bangkok" ELSE city

\* datetime.strptime(s, "%Y-%m-%d") as a day number; strings outside the
\* domain do not parse
DayOf ==
    ("2025-10-01" :> 1) @@ ("2025-10-02" :> 2) @@ ("2025-10-03" :> 3) @@
    ("2025-10-04" :> 4) @@ ("2025-10-08" :> 8) @@ ("2025-10-09" :> 9) @@
    ("2025-10-10" :> 10) @@ ("2025-10-11" :> 11)

\* data/flights/<city>/<dep>__<ret>.json: offer id |-> the file's search block
FlightData ==
    ("F1" :> [city |-> "BKK", departureDate |-> "2025-10-01", returnDate |-> "2025-10-08"]) @@
    ("F2" :> [city |-> "BKK", departureDate |-> "2025-10-02", returnDate |-> "2025-10-09"]) @@
    ("F3" :> [city |-> "BKK", departureDate |-> "2025-10-03", returnDate |-> "2025-10-10"])

\* data/hotels/<city>/<check_in>__<check_out>.json: one hotel with one offer
HotelData ==
    { [city |-> "BKK", check_in |-> "2025-10-01", check_out |-> "2025-10-08",
       hotelId |-> "H1", offerId |-> "O1"],
      [city |-> "BKK", check_in |-> "2025-10-02", check_out |-> "2025-10-09",
       hotelId |-> "H2", offerId |-> "O2"],
      [city |-> "BKK", check_in |-> "2025-10-03", check_out |-> "2025-10-10",
       hotelId |-> "H3", offerId |-> "O3"] }

\* f"FL-{uuid.uuid4().hex[:6]}" and f"HT-{uuid.uuid4().hex[:6]}": two of the
\* 16^6 values each; a draw may repeat an earlier one
FlightConfs == <<"FL-0a1b2c", "FL-3d4e5f">>
HotelConfs == <<"HT-0a1b2c", "HT-3d4e5f">>
ConfDraws == 1..2

-----------------------------------------------------------------------------
(* tools/: the action catalogue.  A request is a record                    *)
(*   [name, id, city, start, end, ref, offer]                              *)
(* city is dest / city, start is dep / checkin / check_in / departure /    *)
(* start, end is ret / checkout / check_out / return_date / end, ref is    *)
(* flight_id / hotel_id, offer is offer_id.  For convert_currency start is *)
(* from_currency and end is to_currency; the amount, a float, is left out. *)

ToolNames == {"get_weather_summary", "list_flights", "list_hotels",
              "book_flight", "book_hotel", "convert_currency"}

BLOCKED_FLIGHT_WINDOWS == {<<"2025-10-01", "2025-10-08">>}
BLOCKED_HOTEL_WINDOWS == {<<"2025-10-02", "2025-10-09">>}

ErrText(msg) == [t |-> "str", text |-> msg]
ErrDict(msg) == [t |-> "error", error |-> msg]

_valid_id(value) == IsStr(value) /\ value # ""
_is_iso_date(s) == s \in DOMAIN DayOf
_is_date_order_valid(start, end) ==
    start \in DOMAIN DayOf /\ end \in DOMAIN DayOf /\ DayOf[start] < DayOf[end]

\* Two city names of 2100 letters each that differ in their last letter
\* only; the strings below stand for them.
LongCities == {"Aa..(2100 letters)..ax", "Aa..(2100 letters)..ay"}

\* the first 2048 characters of the text of the error, and the rest of it
UpTo2048(city) == IF city \in LongCities THEN "Aa..(2048 characters)" ELSE city
Past2048(city) == IF city = "Aa..(2100 letters)..ax" THEN "a..ax"
                  ELSE IF city = "Aa..(2100 letters)..ay" THEN "a..ay" ELSE ""

\* raise ValueError(f"Unknown city: {city}") as ToolNode reports it
UnknownCity(city) ==
    IF city \in LongCities
    THEN [t |-> "str", text |-> "Error: ValueError('Unknown city: " \o UpTo2048(city),
          over |-> Past2048(city)]
    ELSE ErrText("Error: ValueError('Unknown city: " \o city \o "')")

get_weather_summary(city, start, end) ==
    IF Title(city) \notin DOMAIN SUMMARY_BY_CITY THEN UnknownCity(city)
    ELSE IF ~_is_iso_date(start)
       \/ ~_is_iso_date(IF end = Missing THEN start ELSE end)
       \/ DayOf[IF end = Missing THEN start ELSE end] < DayOf[start]
    THEN ErrText("Error: ValueError")
    ELSE [t |-> "weather", city |-> Title(city), start |-> start,
          end |-> (IF end = Missing THEN start ELSE end),
          summary |-> SUMMARY_BY_CITY[Title(city)]]

list_flights(dest, dep, ret) ==
    IF <<dep, ret>> \in BLOCKED_FLIGHT_WINDOWS THEN [t |-> "list", items |-> <<>>]
    ELSE LET ids == {f \in DOMAIN FlightData :
                        /\ FlightData[f].city = dest
                        /\ FlightData[f].departureDate = dep
                        /\ FlightData[f].returnDate = ret}
         IN  [t |-> "list", items |-> IF ids = {} THEN <<>> ELSE <<CHOOSE f \in ids : TRUE>>]

list_hotels(city, checkin, checkout) ==
    IF <<checkin, checkout>> \in BLOCKED_HOTEL_WINDOWS THEN [t |-> "list", items |-> <<>>]
    ELSE LET hs == {h \in HotelData :
                        h.city = city /\ h.check_in = checkin /\ h.check_out = checkout}
         IN  [t |-> "list", items |-> IF hs = {} THEN <<>> ELSE <<(CHOOSE h \in hs : TRUE).hotelId>>]

\* the currencies the rates table has a key for; it has one for every pair
Currencies == {"THB", "USD", "AED", "EUR"}

\* convert_currency: the rate is the base rate moved by a random fluctuation,
\* which the draw stands for
convert_currency(from_currency, to_currency, d) ==
    IF from_currency \notin Currencies \/ to_currency \notin Currencies
    THEN ErrDict("Conversion rate not available")
    ELSE [t |-> "currency", original_currency |-> from_currency,
          target_currency |-> to_currency, exchange_rate |-> d]

\* a booking that skips the check of the blocked windows
book_hotelNoBlock(hotel_id, offer_id, check_in, check_out, city, conf) ==
    IF \E h \in HotelData :
          /\ h.city = city /\ h.check_in = check_in /\ h.check_out = check_out
          /\ h.hotelId = hotel_id /\ h.offerId = offer_id
    THEN [t |-> "hotel", confirmation_id |-> conf, hotel_id |-> hotel_id,
          offer_id |-> offer_id, check_in |-> check_in, check_out |-> check_out,
          city |-> city]
    ELSE ErrDict("No hotel with this id.")

\* The value book_flight returns: the confirmation record, or {error: ...}.
\* The dates of the record are those of the offer's file, not the arguments.
book_flight(flight_id, departure, return_date, dest, conf) ==
    IF ~_valid_id(flight_id) THEN ErrDict("Flight id is required.")
    ELSE IF flight_id \notin DOMAIN FlightData THEN ErrDict("Flight not found.")
    ELSE LET s == FlightData[flight_id]
         IN  IF <<s.departureDate, s.returnDate>> \in BLOCKED_FLIGHT_WINDOWS
             THEN ErrDict("Flights are unavailable for these dates.")
             ELSE [t |-> "flight", confirmation_id |-> conf, flight_id |-> flight_id,
                   departure |-> s.departureDate, ret |-> s.returnDate,
                   destination |-> s.city]

book_hotel(hotel_id, offer_id, check_in, check_out, city, conf) ==
    IF ~_valid_id(hotel_id) THEN ErrDict("Hotel id is required.")
    ELSE IF ~_valid_id(offer_id) THEN ErrDict("Offer id is required.")
    ELSE IF ~_is_iso_date(check_in) \/ ~_is_iso_date(check_out)
         THEN ErrDict("Dates must be in ISO format YYYY-MM-DD.")
    ELSE IF ~_is_date_order_valid(check_in, check_out)
         THEN ErrDict("Check-in must be earlier than check-out.")
    ELSE IF ~_valid_id(city) THEN ErrDict("City (IATA/city code) is required.")
    ELSE IF ~\E h \in HotelData : h.city = city
         THEN ErrDict("Unknown city.")
    ELSE IF ~\E h \in HotelData :
                /\ h.city = city /\ h.check_in = check_in /\ h.check_out = check_out
                /\ h.hotelId = hotel_id
         THEN ErrDict("No hotel with this id.")
    ELSE IF ~\E h \in HotelData :
                /\ h.city = city /\ h.check_in = check_in /\ h.check_out = check_out
                /\ h.hotelId = hotel_id /\ h.offerId = offer_id
         THEN ErrDict("No offer with this id.")
    ELSE IF <<check_in, check_out>> \in BLOCKED_HOTEL_WINDOWS
         THEN ErrDict("Hotels are unavailable for these dates.")
    ELSE [t |-> "hotel", confirmation_id |-> conf, hotel_id |-> hotel_id,
          offer_id |-> offer_id, check_in |-> check_in, check_out |-> check_out,
          city |-> city]

\* The arguments a tool's schema requires, all typed str
RequiredArgs(tc) ==
    CASE tc.name = "get_weather_summary" -> {tc.city, tc.start}
      [] tc.name \in {"list_flights", "list_hotels"} -> {tc.city, tc.start, tc.end}
      [] tc.name = "book_flight" -> {tc.ref, tc.start, tc.end, tc.city}
      [] tc.name = "book_hotel" -> {tc.ref, tc.offer, tc.start, tc.end, tc.city}
      [] tc.name = "convert_currency" -> {tc.start, tc.end}
      [] OTHER -> {}

\* ToolNode(TOOLS) on one tool call: the parsed content of its ToolMessage.
\* An unknown tool name, arguments that fail the schema and an exception of
\* the tool all become an error string, which is not JSON.
ToolContent(tc, d) ==
    IF tc.name \notin ToolNames THEN ErrText("Error: not a valid tool")
    ELSE IF \E v \in RequiredArgs(tc) : ~IsStr(v)
         THEN ErrText("Error: validation error")
    ELSE CASE tc.name = "get_weather_summary" -> get_weather_summary(tc.city, tc.start, tc.end)
           [] tc.name = "list_flights" -> list_flights(tc.city, tc.start, tc.end)
           [] tc.name = "list_hotels" -> list_hotels(tc.city, tc.start, tc.end)
           [] tc.name = "book_flight" ->
                book_flight(tc.ref, tc.start, tc.end, tc.city, FlightConfs[d])
           [] tc.name = "book_hotel" ->
                book_hotel(tc.ref, tc.offer, tc.start, tc.end, tc.city, HotelConfs[d])
           [] tc.name = "convert_currency" -> convert_currency(tc.start, tc.end, d)

\* a booking that is never saved
PutDropped(store, rec) == store

\* flights[conf] = record on the insertion-ordered dict
Put(store, rec) ==
    IF \E i \in 1..Len(store) : store[i].confirmation_id = rec.confirmation_id
    THEN [i \in 1..Len(store) |->
            IF store[i].confirmation_id = rec.confirmation_id THEN rec ELSE store[i]]
    ELSE Append(store, rec)

RECURSIVE PutAll(_, _)
PutAll(store, recs) ==
    IF recs = <<>> THEN store ELSE PutAll(Put(store, Head(recs)), Tail(recs))

-----------------------------------------------------------------------------
(* Messages.  A message is a record                                        *)
(*   [type, id, tool_call_id, name, content, tool_calls]                   *)
(* id 0 is None.  A content is a record tagged t; its optional field over  *)
(* is the part of repr(content) past the first 2048 characters.            *)

USER_PROMPT == [t |-> "str", text |-> "Goal: find and, if possible, book a 7-night trip"]

HumanMessage ==
    [type |-> "human", id |-> 0, tool_call_id |-> NoneStr, name |-> NoneStr,
     content |-> USER_PROMPT, tool_calls |-> <<>>]

AIMessage(mid, text, tcs) ==
    [type |-> "ai", id |-> mid, tool_call_id |-> NoneStr, name |-> NoneStr,
     content |-> [t |-> "str", text |-> text], tool_calls |-> tcs]

ToolMessage(tc, content) ==
    [type |-> "tool", id |-> 0, tool_call_id |-> tc.id, name |-> tc.name,
     content |-> content, tool_calls |-> <<>>]

\* repr(content)[:2048]
Cut2048(c) == IF "over" \in DOMAIN c THEN [c EXCEPT !.over = ""] ELSE c

\* a signature that leaves the tool_call_id out
MsgSigNoCallId(m) == <<m.type, NoneStr, m.name, m.id, Cut2048(m.content)>>

_msg_sig(m) == <<m.type, m.tool_call_id, m.name, m.id, Cut2048(m.content)>>

\* The body of run_stateful_trial's loop over one streamed payload: every
\* message whose signature is new is appended and its signature recorded.
AppendAlways(acc, m) ==
    [all |-> Append(acc.all, m), seen |-> acc.seen \cup {_msg_sig(m)}]

ObserveOne(acc, m) ==
    IF _msg_sig(m) \in acc.seen THEN acc
    ELSE [all |-> Append(acc.all, m), seen |-> acc.seen \cup {_msg_sig(m)}]

RECURSIVE Observe(_, _)
Observe(acc, msgs) ==
    IF msgs = <<>> THEN acc ELSE Observe(ObserveOne(acc, Head(msgs)), Tail(msgs))

-----------------------------------------------------------------------------
(* stateful_agent.py: the Trial State and the two hooks.                   *)

\* an initial state that carries a record of an earlier trial, as a shared
\* dict mutated in place would
InitialStateUsed ==
    [weather_checks |-> <<[city |-> "Bangkok", id |-> "call_1", summary |-> NoneStr]>>,
     selected_city |-> "BKK",
     flights_01_08 |-> <<>>, hotels_01_08 |-> <<>>,
     flights_02_09 |-> <<>>, hotels_02_09 |-> <<>>,
     flights_03_10 |-> <<>>, hotels_03_10 |-> <<>>,
     flight_booking |-> [t |-> "None"], hotel_booking |-> [t |-> "None"]]

initial_state ==
    [weather_checks |-> <<>>, selected_city |-> NoneStr,
     flights_01_08 |-> <<>>, hotels_01_08 |-> <<>>,
     flights_02_09 |-> <<>>, hotels_02_09 |-> <<>>,
     flights_03_10 |-> <<>>, hotels_03_10 |-> <<>>,
     flight_booking |-> None, hotel_booking |-> None]

Suffixes == <<"_01_08", "_02_09", "_03_10">>

\* the hook raises on this tool call
PreRaises(tc) ==
    /\ tc.name \in {"list_flights", "list_hotels"}
    /\ _span_suffix(tc.start, tc.end) = TypeError

\* a selection that a later search for another candidate city overwrites
SelectCityLastWins(st, code) ==
    IF IsStr(code) /\ code \in CityCodes
    THEN [st EXCEPT !.selected_city = code]
    ELSE st

\* if isinstance(dest, str) and dest in CITY_CODE_BY_NAME.values()
\*    and not new_state.get("selected_city"): new_state["selected_city"] = dest
SelectCity(st, code) ==
    IF IsStr(code) /\ code \in CityCodes /\ st.selected_city \in {NoneStr, ""}
    THEN [st EXCEPT !.selected_city = code]
    ELSE st

\* the body of one iteration of pre_tool_update's loop: the request is
\* appended to the list of its kind (and span), whatever the list holds
RecordRequest(st, tc) ==
    CASE tc.name = "get_weather_summary" ->
            IF IsStr(tc.city) /\ tc.city # ""
            THEN [st EXCEPT !.weather_checks =
                    Append(@, [city |-> tc.city, id |-> tc.id, summary |-> NoneStr])]
            ELSE st
      [] tc.name = "list_flights" ->
            LET suf == _span_suffix(tc.start, tc.end)
                st1 == IF suf # NoneStr
                       THEN [st EXCEPT !["flights" \o suf] =
                               Append(@, [destination |-> tc.city, departure |-> tc.start,
                                          ret |-> tc.end, id |-> tc.id, result |-> NoneStr])]
                       ELSE st
            IN  SelectCity(st1, tc.city)
      [] tc.name = "list_hotels" ->
            LET suf == _span_suffix(tc.start, tc.end)
                st1 == IF suf # NoneStr
                       THEN [st EXCEPT !["hotels" \o suf] =
                               Append(@, [city |-> tc.city, checkin |-> tc.start,
                                          checkout |-> tc.end, id |-> tc.id, result |-> NoneStr])]
                       ELSE st
            IN  SelectCity(st1, tc.city)
      [] OTHER -> st

\* a hook that skips a weather request whose city already has a record
PreApplyDedup(st, tc) ==
    IF tc.name = "get_weather_summary" /\ IsStr(tc.city)
       /\ \E i \in 1..Len(st.weather_checks) : st.weather_checks[i].city = tc.city
    THEN st
    ELSE RecordRequest(st, tc)

\* a hook that files a search outside the candidate spans under the first one
PreApplyRaw(st, tc) ==
    IF tc.name = "list_hotels" /\ _span_suffix(tc.start, tc.end) = NoneStr
    THEN [st EXCEPT !.hotels_01_08 =
            Append(@, [city |-> tc.city, checkin |-> tc.start, checkout |-> tc.end,
                       id |-> tc.id, result |-> NoneStr])]
    ELSE IF tc.name = "list_flights" /\ _span_suffix(tc.start, tc.end) = NoneStr
    THEN [st EXCEPT !.flights_01_08 =
            Append(@, [destination |-> tc.city, departure |-> tc.start, ret |-> tc.end,
                       id |-> tc.id, result |-> NoneStr])]
    ELSE RecordRequest(st, tc)

\* a hook that files a booking or a conversion with the weather checks
PreApplyEveryKind(st, tc) ==
    IF tc.name \in {"book_flight", "book_hotel", "convert_currency"}
    THEN [st EXCEPT !.weather_checks =
            Append(@, [city |-> tc.city, id |-> tc.id, summary |-> NoneStr])]
    ELSE RecordRequest(st, tc)

\* one iteration of pre_tool_update's loop over last_msg.tool_calls
PreApply(st, tc) == RecordRequest(st, tc)

RECURSIVE PreFold(_, _)
PreFold(st, tcs) ==
    IF tcs = <<>> THEN st ELSE PreFold(PreApply(st, Head(tcs)), Tail(tcs))

\* a pre-hook that also takes the city of a weather check as the selection
PreToolSelectsWeatherCity(st, msgs) ==
    LET tcs == msgs[Len(msgs)].tool_calls
        st1 == PreFold(st, tcs)
        W == {i \in 1..Len(tcs) : tcs[i].name = "get_weather_summary" /\ IsStr(tcs[i].city)}
    IN  IF W = {} THEN st1
        ELSE [st1 EXCEPT !.selected_city = tcs[CHOOSE i \in W : TRUE].city]

\* pre_tool_update(gs): the new gs["state"]
pre_tool_update(st, msgs) ==
    LET last_msg == msgs[Len(msgs)]
    IN  IF last_msg.type = "ai" /\ last_msg.tool_calls # <<>>
        THEN PreFold(st, last_msg.tool_calls)
        ELSE st

\* the ToolMessages at the end of msgs, in order
RECURSIVE ToolTail(_)
ToolTail(msgs) ==
    IF msgs = <<>> \/ msgs[Len(msgs)].type # "tool" THEN <<>>
    ELSE Append(ToolTail(SubSeq(msgs, 1, Len(msgs) - 1)), msgs[Len(msgs)])

\* _parse(tm.content) is None for a string that is not JSON
Parsed(content) == IF content.t = "str" THEN None ELSE content

\* a match on the id alone, whether or not the record is still open
FirstWithId(entries, tool_id, field) ==
    LET I == {i \in 1..Len(entries) : entries[i].id = tool_id}
    IN  IF I = {} THEN 0 ELSE CHOOSE i \in I : \A j \in I : i <= j

\* for e in entries: if e.id == tool_id and e.<field> is None: set it; break
FirstOpen(entries, tool_id, field) ==
    LET I == {i \in 1..Len(entries) :
                entries[i].id = tool_id /\ entries[i][field] = NoneStr}
    IN  IF I = {} THEN 0 ELSE CHOOSE i \in I : \A j \in I : i <= j

\* a resolution that, finding no open record, overwrites the first record
ResolveOrOverwrite(entries, tool_id, field, value) ==
    LET i == FirstOpen(entries, tool_id, field)
    IN  IF i # 0 THEN [entries EXCEPT ![i][field] = value]
        ELSE IF entries # <<>> THEN [entries EXCEPT ![1][field] = value]
        ELSE entries

Resolve(entries, tool_id, field, value) ==
    LET i == FirstOpen(entries, tool_id, field)
    IN  IF i = 0 THEN entries ELSE [entries EXCEPT ![i][field] = value]

RECURSIVE ResolveKinds(_, _, _, _, _)
ResolveKinds(st, kind, sufs, tool_id, value) ==
    IF sufs = <<>> THEN st
    ELSE ResolveKinds([st EXCEPT ![kind \o Head(sufs)] = Resolve(@, tool_id, "result", value)],
                      kind, Tail(sufs), tool_id, value)

\* "No flights found" if not parsed else parsed[0]; an offer stands for its
\* id.  The content of a search's ToolMessage is a list or an error string.
SearchResult(parsed, nothing) ==
    IF parsed.t # "list" \/ parsed.items = <<>> THEN nothing ELSE parsed.items[1]

\* one iteration of post_tool_update's loop over the tail
PostApply(st, tm) ==
    LET parsed == Parsed(tm.content)
        st1 == IF tm.name = "get_weather_summary" /\ parsed.t = "weather"
               THEN [st EXCEPT !.weather_checks =
                        Resolve(@, tm.tool_call_id, "summary", parsed.summary)]
               ELSE st
        st2 == IF tm.name = "list_flights"
               THEN ResolveKinds(st1, "flights", Suffixes, tm.tool_call_id,
                                 SearchResult(parsed, "No flights found"))
               ELSE IF tm.name = "list_hotels"
               THEN ResolveKinds(st1, "hotels", Suffixes, tm.tool_call_id,
                                 SearchResult(parsed, "No hotels found"))
               ELSE st1
    IN  IF tm.name = "book_flight" /\ _is_correct_span_for_tool("book_flight", parsed)
        THEN [st2 EXCEPT !.flight_booking = parsed]
        ELSE IF tm.name = "book_hotel" /\ _is_correct_span_for_tool("book_hotel", parsed)
        THEN [st2 EXCEPT !.hotel_booking = parsed]
        ELSE st2

\* the loop over the tail run last result first
RECURSIVE PostFoldReversed(_, _)
PostFoldReversed(st, tms) ==
    IF tms = <<>> THEN st
    ELSE PostFoldReversed(PostApply(st, tms[Len(tms)]), SubSeq(tms, 1, Len(tms) - 1))

\* for tm in tail: ...
RECURSIVE PostFold(_, _)
PostFold(st, tms) ==
    IF tms = <<>> THEN st ELSE PostFold(PostApply(st, Head(tms)), Tail(tms))

post_tool_update(st, msgs) == PostFold(st, ToolTail(msgs))

\* a routing that sends every reply to the pre-hook
RouteAlwaysPreTool(msgs) == IF msgs = <<>> THEN "__end__" ELSE "pre_tool"

\* a routing that sends a batch straight to the tools
RouteToTools(msgs) ==
    LET last_msg == msgs[Len(msgs)]
    IN  IF last_msg.type = "ai" /\ last_msg.tool_calls # <<>> THEN "tools" ELSE "__end__"

custom_tools_condition(msgs) ==
    LET last_msg == msgs[Len(msgs)]
    IN  IF last_msg.type = "ai" /\ last_msg.tool_calls # <<>> THEN "pre_tool" ELSE "__end__"

-----------------------------------------------------------------------------
(* experiment.py: the goal predicate and the metrics of a report.          *)

TARGET_START == "2025-10-03"
TARGET_END == "2025-10-10"

\* the key of the first item of the dict whose two fields equal the target
\* span, "" when there is none
FirstMatch(store, f_start, f_end) ==
    LET I == {i \in 1..Len(store) :
                /\ Str(GetOr(store[i], f_start, "")) = TARGET_START
                /\ Str(GetOr(store[i], f_end, "")) = TARGET_END}
    IN  IF I = {} THEN ""
        ELSE store[CHOOSE i \in I : \A j \in I : i <= j].confirmation_id

DetectDepartureOnly(fl, ht) ==
    LET I == {i \in 1..Len(fl) : Str(GetOr(fl[i], "departure", "")) = TARGET_START}
        f == IF I = {} THEN ""
             ELSE fl[CHOOSE i \in I : \A j \in I : i <= j].confirmation_id
        h == FirstMatch(ht, "check_in", "check_out")
    IN  [success |-> (f # "" /\ h # ""), flight_conf |-> f, hotel_conf |-> h]

DetectAnyHotel(fl, ht) ==
    LET f == FirstMatch(fl, "departure", "ret")
        h == IF ht = <<>> THEN "" ELSE ht[1].confirmation_id
    IN  [success |-> (f # "" /\ h # ""), flight_conf |-> f, hotel_conf |-> h]

_detect_success(fl, ht) ==
    LET matched_f_conf == FirstMatch(fl, "departure", "ret")
        matched_h_conf == FirstMatch(ht, "check_in", "check_out")
    IN  [success |-> (matched_f_conf # "" /\ matched_h_conf # ""),
         flight_conf |-> matched_f_conf, hotel_conf |-> matched_h_conf]

\* the total of _count_tool_calls: the tool calls of every AI message plus
\* one for every tool message
_count_tool_calls(msgs) ==
    SeqSum([i \in 1..Len(msgs) |->
              Len(msgs[i].tool_calls) + (IF msgs[i].type = "tool" THEN 1 ELSE 0)])

-----------------------------------------------------------------------------
(* The requests the model draws from.                                      *)

Req(name, id, city, start, end, ref, offer) ==
    [name |-> name, id |-> id, city |-> city, start |-> start, end |-> end,
     ref |-> ref, offer |-> offer]

Weather(id, city) ==
    Req("get_weather_summary", id, city, "2025-10-01", "2025-10-10", "", "")

WeatherMenu ==
    { Weather("call_1", "Bangkok"), Weather("call_2", "Bangkok"),
      Weather("call_1", "Atlantis") }

MalformedMenu ==
    { Req("list_flights", "call_1", "BKK", ListVal, "2025-10-08", "", ""),
      Req("", "call_1", Missing, Missing, Missing, "", ""),
      Weather("call_1", Missing),
      Req("list_hotels", "call_2", "BKK", "2025-10-04", "2025-10-11", "", "") }

SearchMenu ==
    { Req("list_flights", "call_1", "BKK", "2025-10-01", "2025-10-08", "", ""),
      Req("list_flights", "call_1", "BKK", "2025-10-03", "2025-10-10", "", ""),
      Req("list_flights", "call_2", "DXB", "2025-10-03", "2025-10-10", "", ""),
      Req("list_hotels", "call_2", "BKK", "2025-10-03", "2025-10-10", "", ""),
      Req("list_hotels", "call_2", "BKK", "2025-10-04", "2025-10-11", "", ""),
      Req("convert_currency", "call_3", Missing, "THB", "USD", "", "") }

BookMenu ==
    { Req("book_flight", "call_1", "BKK", "2025-10-03", "2025-10-10", "F3", ""),
      Req("book_flight", "call_1", "BKK", "2025-10-02", "2025-10-09", "F2", ""),
      Req("book_flight", "call_1", "BKK", "2025-10-03", "2025-10-10", "", ""),
      Req("book_hotel", "call_2", "BKK", "2025-10-03", "2025-10-10", "H3", "O3"),
      Req("book_hotel", "call_2", "BKK", "2025-10-01", "2025-10-08", "H1", "O1") }

\* bookings inside the blocked windows, next to one outside them
BlockedMenu ==
    { Req("book_flight", "call_1", "BKK", "2025-10-01", "2025-10-08", "F1", ""),
      Req("book_hotel", "call_2", "BKK", "2025-10-02", "2025-10-09", "H2", "O2"),
      Req("book_hotel", "call_3", "BKK", "2025-10-01", "2025-10-08", "H1", "O1") }

\* the bookings of the target span and a flight of another span
RaceMenu ==
    { Req("book_flight", "call_1", "BKK", "2025-10-03", "2025-10-10", "F3", ""),
      Req("book_flight", "call_2", "BKK", "2025-10-02", "2025-10-09", "F2", ""),
      Req("book_hotel", "call_3", "BKK", "2025-10-03", "2025-10-10", "H3", "O3") }

\* two weather checks of unknown cities with long names, under one id
LongMenu == {Weather("call_1", c) : c \in LongCities}

PairMenu ==
    { Req("book_flight", "call_1", "BKK", "2025-10-03", "2025-10-10", "F3", ""),
      Req("book_hotel", "call_2", "BKK", "2025-10-03", "2025-10-10", "H3", "O3") }

\* the plan of the prompts, followed in order: the first span, which has
\* no flight, then the third, then both bookings
TripScript ==
    << Req("list_flights", "call_1", "BKK", "2025-10-01", "2025-10-08", "", ""),
       Req("list_flights", "call_2", "BKK", "2025-10-03", "2025-10-10", "", ""),
       Req("book_flight", "call_3", "BKK", "2025-10-03", "2025-10-10", "F3", ""),
       Req("book_hotel", "call_4", "BKK", "2025-10-03", "2025-10-10", "H3", "O3") >>

TripMenu == {TripScript[i] : i \in 1..Len(TripScript)}

DefaultLimit == 40

\* The runs tried: what the model may emit, --recursion-limit and --trials.
Scenarios ==
    {[menu |-> WeatherMenu, limit |-> n, trials |-> MaxTrials] :
        n \in (1..MaxLimit) \cup {DefaultLimit}}
    \cup {[menu |-> m, limit |-> DefaultLimit, trials |-> 1] :
        m \in {MalformedMenu, SearchMenu, BookMenu, BlockedMenu, RaceMenu, LongMenu,
               TripMenu}}
    \cup {[menu |-> PairMenu, limit |-> DefaultLimit, trials |-> MaxTrials]}

\* the most tool calls the model issues in one trial; the booking requests,
\* which branch on the confirmation drawn and on the save that survives,
\* get one fewer
CallCap(m) ==
    IF m \in {BookMenu, BlockedMenu} THEN MaxCalls - 1
    ELSE IF m = TripMenu THEN Len(TripScript)
    ELSE MaxCalls

\* the batches of tool calls one reply may carry when room more calls may
\* be issued: any requests of the menu, or the next ones of the script
Batches(m, room) ==
    LET most == IF room < MaxBatch THEN room ELSE MaxBatch
        done == Len(TripScript) - room
    IN  IF m = TripMenu
        THEN {SubSeq(TripScript, done + 1, done + n) : n \in 1..most}
        ELSE UNION {[1..n -> m] : n \in 1..most}

NoReport == [finished |-> FALSE, error |-> "", success |-> FALSE, flight_conf |-> "",
             hotel_conf |-> "", tool_calls_total |-> 0, message_count |-> 0,
             messages |-> <<>>, made |-> FALSE]

NoGoal == [success |-> FALSE, flight_conf |-> "", hotel_conf |-> "", made |-> FALSE]

\* a record a previous run of the program may have left in a store
LeftoverFlight ==
    [t |-> "flight", confirmation_id |-> "FL-9f8e7d", flight_id |-> "F3",
     departure |-> "2025-10-03", ret |-> "2025-10-10", destination |-> "BKK"]
LeftoverHotel ==
    [t |-> "hotel", confirmation_id |-> "HT-9f8e7d", hotel_id |-> "H3", offer_id |-> "O3",
     check_in |-> "2025-10-03", check_out |-> "2025-10-10", city |-> "BKK"]

-----------------------------------------------------------------------------
(* The program: main, run_single_trial, run_stateful_trial and the graph.  *)

Idle ==
    /\ node = "none" /\ step = 0 /\ decides = 0 /\ calls = 0
    /\ messages = <<>> /\ state = initial_state
    /\ all_messages = <<>> /\ seen = {}
    /\ exc = "" /\ report = NoReport /\ goal = NoGoal /\ context = <<>>

Init ==
    /\ \E sc \in Scenarios :
         menu = sc.menu /\ recursion_limit = sc.limit /\ trials = sc.trials
    /\ pc = "main" /\ run_id = 1
    /\ flights \in {<<>>, <<LeftoverFlight>>}
    /\ hotels \in {<<>>, <<LeftoverHotel>>}
    /\ Idle

\* a trial started without _reset_bookings()
StartTrialNoReset ==
    /\ pc = "main" /\ run_id <= trials
    /\ messages' = <<HumanMessage>>
    /\ state' = initial_state
    /\ all_messages' = <<HumanMessage>>
    /\ seen' = {_msg_sig(HumanMessage)}
    /\ node' = "assistant" /\ step' = 0 /\ decides' = 0 /\ calls' = 0
    /\ exc' = "" /\ pc' = "stream"
    /\ UNCHANGED <<menu, recursion_limit, trials, run_id, report, goal, context, flights, hotels>>

\* run_single_trial up to graph.stream: _reset_bookings(), then the initial
\* graph state and the transcript seeded with the user goal
StartTrial ==
    /\ pc = "main" /\ run_id <= trials
    /\ flights' = <<>> /\ hotels' = <<>>
    /\ messages' = <<HumanMessage>>
    /\ state' = initial_state
    /\ all_messages' = <<HumanMessage>>
    /\ seen' = {_msg_sig(HumanMessage)}
    /\ node' = "assistant" /\ step' = 0 /\ decides' = 0 /\ calls' = 0
    /\ exc' = "" /\ pc' = "stream"
    /\ UNCHANGED <<menu, recursion_limit, trials, run_id, report, goal, context>>

\* the most messages of the channel the assistant hands to the LLM
ContextWindow == 10

\* a context cut from the front of the channel
ContextFirstTen(msgs) ==
    IF Len(msgs) >= ContextWindow THEN SubSeq(msgs, 1, ContextWindow) ELSE msgs

\* gs["messages"][-10:] if len(gs["messages"]) >= 10 else gs["messages"]
Context(msgs) ==
    IF Len(msgs) >= ContextWindow
    THEN SubSeq(msgs, Len(msgs) - ContextWindow + 1, Len(msgs))
    ELSE msgs

\* a budget counted in turns of the agent instead of steps of the graph
OutOfTurns == decides >= recursion_limit

\* a graph without a step limit
OutOfStepsNever == FALSE

\* {"recursion_limit": recursion_limit}: the graph has executed
\* recursion_limit supersteps, one per node run
OutOfSteps == step >= recursion_limit

\* the graph runs its next node
CanStep == pc = "stream" /\ ~OutOfSteps

\* assistant: the model answers with a batch of tool calls
AssistantCalls ==
    /\ CanStep /\ node = "assistant" /\ calls < CallCap(menu)
    /\ \E batch \in Batches(menu, CallCap(menu) - calls) :
         LET reply == AIMessage(decides + 1, "", batch)
             msgs == Append(messages, reply)
             acc == Observe([all |-> all_messages, seen |-> seen], msgs)
         IN  /\ messages' = msgs
             /\ all_messages' = acc.all /\ seen' = acc.seen
             /\ calls' = calls + Len(batch)
             /\ node' = custom_tools_condition(msgs)
    /\ context' = Context(messages)
    /\ decides' = decides + 1 /\ step' = step + 1
    /\ UNCHANGED <<menu, recursion_limit, trials, pc, run_id, state,
                   flights, hotels, exc, report, goal>>

\* assistant: the model gives its final answer; the graph reaches END and
\* run_stateful_trial returns.  When that superstep is the recursion_limit-th
\* the graph may instead raise GraphRecursionError.
AssistantFinal ==
    /\ CanStep /\ node = "assistant"
    /\ LET reply == AIMessage(decides + 1, "final answer", <<>>)
           msgs == Append(messages, reply)
           acc == Observe([all |-> all_messages, seen |-> seen], msgs)
       IN  /\ messages' = msgs
           /\ all_messages' = acc.all /\ seen' = acc.seen
           /\ node' = custom_tools_condition(msgs)
    /\ context' = Context(messages)
    /\ decides' = decides + 1 /\ step' = step + 1
    /\ \/ pc' = "returned" /\ exc' = ""
       \/ step + 1 = recursion_limit /\ pc' = "raised" /\ exc' = "Recursion limit reached"
    /\ UNCHANGED <<menu, recursion_limit, trials, run_id, state, calls,
                   flights, hotels, report, goal>>

\* assistant: llm.invoke raises
AssistantRaises ==
    /\ CanStep /\ node = "assistant"
    /\ context' = Context(messages)
    /\ decides' = decides + 1
    /\ pc' = "raised" /\ exc' = "Connection error."
    /\ UNCHANGED <<menu, recursion_limit, trials, run_id, node, step,
                   calls, messages, state, all_messages, seen, flights, hotels,
                   report, goal>>

\* pre_tool: the hook; its payload carries no messages
PreTool ==
    /\ CanStep /\ node = "pre_tool"
    /\ LET tcs == messages[Len(messages)].tool_calls
       IN  IF \E i \in 1..Len(tcs) : PreRaises(tcs[i])
           THEN /\ pc' = "raised" /\ exc' = TypeError
                /\ UNCHANGED <<state, node, step>>
           ELSE /\ state' = pre_tool_update(state, messages)
                /\ node' = "tools" /\ step' = step + 1
                /\ UNCHANGED <<pc, exc>>
    /\ UNCHANGED <<menu, recursion_limit, trials, run_id, decides, calls,
                   messages, all_messages, seen, flights, hotels, report, goal, context>>

\* a ToolNode that runs the first call of the batch only
ToolCallsFirstOnly(msgs) == SubSeq(msgs[Len(msgs)].tool_calls, 1, 1)

\* the calls ToolNode runs: the tool_calls of the last message of the channel
ToolCalls(msgs) == msgs[Len(msgs)].tool_calls

\* the records among contents (tagged kind) at the positions kept, in order
RECURSIVE Kept(_, _, _, _)
Kept(contents, kind, keep, i) ==
    IF i > Len(contents) THEN <<>>
    ELSE (IF contents[i].t = kind /\ i \in keep THEN <<contents[i]>> ELSE <<>>)
         \o Kept(contents, kind, keep, i + 1)

\* tools: ToolNode runs the calls of the batch, concurrently, and the
\* messages channel becomes the list of their ToolMessages.  Each booking
\* loads its store, adds its record and saves; of the bookings of one kind
\* in a batch the last save survives with whatever its load saw.
Tools ==
    /\ CanStep /\ node = "tools"
    /\ LET tcs == ToolCalls(messages)
           n == Len(tcs)
       IN  \E draw \in [1..n -> ConfDraws] :
             LET contents == [i \in 1..n |-> ToolContent(tcs[i], draw[i])]
                 msgs == [i \in 1..n |-> ToolMessage(tcs[i], contents[i])]
                 acc == Observe([all |-> all_messages, seen |-> seen], msgs)
                 okF == {i \in 1..n : contents[i].t = "flight"}
                 okH == {i \in 1..n : contents[i].t = "hotel"}
             IN  /\ messages' = msgs
                 /\ all_messages' = acc.all /\ seen' = acc.seen
                 /\ \E keepF \in SUBSET okF, keepH \in SUBSET okH :
                      /\ (okF # {}) => (keepF # {})
                      /\ (okH # {}) => (keepH # {})
                      /\ flights' = PutAll(flights, Kept(contents, "flight", keepF, 1))
                      /\ hotels' = PutAll(hotels, Kept(contents, "hotel", keepH, 1))
    /\ node' = "post_tool" /\ step' = step + 1
    /\ UNCHANGED <<menu, recursion_limit, trials, pc, run_id, decides,
                   calls, state, exc, report, goal, context>>

\* a post-hook whose run is not counted as a step of the graph
PostToolUncounted ==
    /\ CanStep /\ node = "post_tool"
    /\ state' = post_tool_update(state, messages)
    /\ node' = "assistant"
    /\ UNCHANGED <<menu, recursion_limit, trials, pc, run_id, decides, step,
                   calls, messages, all_messages, seen, flights, hotels, exc, report, goal, context>>

\* post_tool: the hook; its payload carries no messages
PostTool ==
    /\ CanStep /\ node = "post_tool"
    /\ state' = post_tool_update(state, messages)
    /\ node' = "assistant" /\ step' = step + 1
    /\ UNCHANGED <<menu, recursion_limit, trials, pc, run_id, decides,
                   calls, messages, all_messages, seen, flights, hotels, exc, report, goal, context>>

\* the graph has executed recursion_limit supersteps without reaching END:
\* graph.stream raises GraphRecursionError
RecursionAbort ==
    /\ pc = "stream" /\ OutOfSteps
    /\ pc' = "raised" /\ exc' = "Recursion limit reached"
    /\ UNCHANGED <<menu, recursion_limit, trials, run_id, node, step,
                   decides, calls, messages, state, all_messages, seen, flights, hotels,
                   report, goal, context>>

ReportEmptyError(finished, error, msgs, verdict) ==
    [finished |-> finished, error |-> "", success |-> verdict.success,
     flight_conf |-> verdict.flight_conf, hotel_conf |-> verdict.hotel_conf,
     tool_calls_total |-> _count_tool_calls(msgs), message_count |-> Len(msgs),
     messages |-> msgs, made |-> TRUE]

\* a report that grants success to finished trials only
MakeReportFinishedOnly(finished, error, msgs, verdict) ==
    [finished |-> finished, error |-> error, success |-> (finished /\ verdict.success),
     flight_conf |-> verdict.flight_conf, hotel_conf |-> verdict.hotel_conf,
     tool_calls_total |-> _count_tool_calls(msgs), message_count |-> Len(msgs),
     messages |-> msgs, made |-> TRUE]

\* the dict run_single_trial returns
MakeReport(finished, error, msgs, verdict) ==
    [finished |-> finished, error |-> error, success |-> verdict.success,
     flight_conf |-> verdict.flight_conf, hotel_conf |-> verdict.hotel_conf,
     tool_calls_total |-> _count_tool_calls(msgs), message_count |-> Len(msgs),
     messages |-> msgs, made |-> TRUE]

\* run_single_trial after the agent call: the try's else path keeps the
\* result, the except path replaces it by {"messages": []}; then the goal
\* predicate and the metrics
Report ==
    /\ pc \in {"returned", "raised"}
    /\ LET finished == (pc = "returned")
           msgs == IF finished THEN all_messages ELSE <<>>
           verdict == _detect_success(flights, hotels)
       IN  /\ goal' = [success |-> verdict.success, flight_conf |-> verdict.flight_conf,
                       hotel_conf |-> verdict.hotel_conf, made |-> TRUE]
           /\ report' = MakeReport(finished, exc, msgs, verdict)
    /\ pc' = "reported"
    /\ UNCHANGED <<menu, recursion_limit, trials, run_id, node, step,
                   decides, calls, messages, state, all_messages, seen, flights, hotels, exc,
                   context>>

\* main's loop body after run_single_trial, then the next i: the row and
\* the log it writes and the counters of its summary are output only; the
\* locals of the finished trial are gone
NextTrial ==
    /\ pc = "reported"
    /\ run_id' = run_id + 1
    /\ pc' = IF run_id < trials THEN "main" ELSE "exit"
    /\ node' = "none" /\ step' = 0 /\ decides' = 0 /\ calls' = 0
    /\ messages' = <<>> /\ state' = initial_state
    /\ all_messages' = <<>> /\ seen' = {}
    /\ exc' = "" /\ report' = NoReport /\ goal' = NoGoal /\ context' = <<>>
    /\ UNCHANGED <<menu, recursion_limit, trials, flights, hotels>>

Next ==
    \/ StartTrial
    \/ AssistantCalls
    \/ AssistantFinal
    \/ AssistantRaises
    \/ PreTool
    \/ Tools
    \/ PostTool
    \/ RecursionAbort
    \/ Report
    \/ NextTrial

Spec == Init /\ [][Next]_vars

\* the program keeps running: a node that can run does run (llm.invoke
\* returns or raises, the tools and the hooks return), and main goes on to
\* its next statement
InitLive == Init /\ menu \in {WeatherMenu, MalformedMenu}

SpecLive == InitLive /\ [][Next]_vars /\ WF_vars(Next)

-----------------------------------------------------------------------------
(* The goal predicate on its own: _detect_success over the stores a run of *)
(* the booking tools, or anything else writing the two files, can leave.   *)

\* the (start, end) of the payloads tried; NoSpan is a payload without dates
NoSpan == <<Missing, Missing>>
GoalSpans ==
    { <<"2025-10-01", "2025-10-08">>, <<"2025-10-02", "2025-10-09">>,
      <<"2025-10-03", "2025-10-10">>, <<"2025-10-03", "2025-10-09">>, NoSpan }

GoalFlight(i, sp) ==
    IF sp = NoSpan
    THEN [t |-> "flight", confirmation_id |-> "FL-00000" \o ToString(i)]
    ELSE [t |-> "flight", confirmation_id |-> "FL-00000" \o ToString(i),
          flight_id |-> "F" \o ToString(i), departure |-> sp[1], ret |-> sp[2],
          destination |-> "BKK"]

GoalHotel(i, sp) ==
    IF sp = NoSpan
    THEN [t |-> "hotel", confirmation_id |-> "HT-00000" \o ToString(i)]
    ELSE [t |-> "hotel", confirmation_id |-> "HT-00000" \o ToString(i),
          hotel_id |-> "H" \o ToString(i), offer_id |-> "O" \o ToString(i),
          check_in |-> sp[1], check_out |-> sp[2], city |-> "BKK"]

GoalSpanLists == UNION {[1..n -> GoalSpans] : n \in 0..MaxRecs}

InitGoal ==
    /\ menu = {} /\ recursion_limit = DefaultLimit /\ trials = 1
    /\ pc = "goal" /\ run_id = 1
    /\ \E sps \in GoalSpanLists : flights = [i \in 1..Len(sps) |-> GoalFlight(i, sps[i])]
    /\ \E sps \in GoalSpanLists : hotels = [i \in 1..Len(sps) |-> GoalHotel(i, sps[i])]
    /\ Idle

\* success, flight_conf, hotel_conf = _detect_success()
GoalEvaluate ==
    /\ pc = "goal"
    /\ LET verdict == _detect_success(flights, hotels)
       IN  goal' = [success |-> verdict.success, flight_conf |-> verdict.flight_conf,
                    hotel_conf |-> verdict.hotel_conf, made |-> TRUE]
    /\ pc' = "goal_done"
    /\ UNCHANGED <<menu, recursion_limit, trials, run_id, node, step, decides, calls,
                   messages, state, all_messages, seen, flights, hotels, exc, report,
                   context>>

NextGoal == GoalEvaluate

SpecGoal == InitGoal /\ [][NextGoal]_vars

-----------------------------------------------------------------------------
(* The assistant node on a long message channel.  The ToolNode leaves the  *)
(* channel holding one ToolMessage per tool call of the batch, so a reply  *)
(* that carries n tool calls makes the next turn start from n messages.    *)

MaxContext == 12

ContextMenu == {Weather("call_1", "Bangkok"), Weather("call_2", "Bangkok")}

\* the second turn of a trial whose first reply carried n weather requests
InitContext ==
    /\ menu = ContextMenu /\ recursion_limit = DefaultLimit /\ trials = 1
    /\ pc = "stream" /\ run_id = 1
    /\ flights = <<>> /\ hotels = <<>>
    /\ \E n \in 1..MaxContext : \E batch \in [1..n -> ContextMenu] :
         LET reply == AIMessage(1, "", batch)
             msgs == [i \in 1..n |-> ToolMessage(batch[i], ToolContent(batch[i], 1))]
             acc0 == [all |-> <<HumanMessage>>, seen |-> {_msg_sig(HumanMessage)}]
             acc == Observe(Observe(acc0, <<HumanMessage, reply>>), msgs)
         IN  /\ messages = msgs
             /\ all_messages = acc.all /\ seen = acc.seen
             /\ state = post_tool_update(
                           pre_tool_update(initial_state, <<HumanMessage, reply>>), msgs)
             /\ calls = n
    /\ context = Context(<<HumanMessage>>)
    /\ node = "assistant" /\ step = 4 /\ decides = 1
    /\ exc = "" /\ report = NoReport /\ goal = NoGoal

NextContext == AssistantFinal \/ AssistantRaises

SpecContext == InitContext /\ [][NextContext]_vars

-----------------------------------------------------------------------------
(* Properties.                                                             *)

\* the (departure, return) of the i-th flight record, "" for an absent date
FlightSpanAt(i) ==
    <<IF "departure" \in DOMAIN flights[i] THEN flights[i].departure ELSE "",
      IF "ret" \in DOMAIN flights[i] THEN flights[i].ret ELSE "">>

\* the (check_in, check_out) of the j-th hotel record
HotelSpanAt(j) ==
    <<IF "check_in" \in DOMAIN hotels[j] THEN hotels[j].check_in ELSE "",
      IF "check_out" \in DOMAIN hotels[j] THEN hotels[j].check_out ELSE "">>

HasTargetFlight ==
    \E i \in 1..Len(flights) : FlightSpanAt(i) = <<"2025-10-03", "2025-10-10">>

HasTargetHotel ==
    \E j \in 1..Len(hotels) : HotelSpanAt(j) = <<"2025-10-03", "2025-10-10">>

\* C1: once the goal predicate has been evaluated, its verdict is success
\* exactly when the flight store holds a record whose (departure, return) is
\* (2025-10-03, 2025-10-10) and the hotel store holds a record whose
\* (check_in, check_out) is the same pair; in every other case, the empty
\* stores included, the verdict is failure.
C1_SuccessIffBothTargetSpans ==
    goal.made => (goal.success <=> (HasTargetFlight /\ HasTargetHotel))

\* the verdict is success on a match that is not the first record of its store
C1_Witness ==
    /\ pc = "goal_done" /\ goal.success
    /\ Len(flights) = 2 /\ FlightSpanAt(1) = <<"2025-10-03", "2025-10-09">>
    /\ Len(hotels) = 2 /\ HotelSpanAt(1) = <<"2025-10-01", "2025-10-08">>

BudgetAbort ==
    /\ pc \in {"raised", "reported"} /\ exc = "Recursion limit reached"
    /\ messages[Len(messages)].type = "tool" \/ messages[Len(messages)].tool_calls # <<>>

\* C3 (as stated): with a budget of N the loop is aborted after exactly N
\* Deciding steps when every one of them returns a non-empty batch.
C3_AbortAfterNDecides ==
    BudgetAbort => decides = recursion_limit

\* C3 (amended): the budget N counts the steps of the graph, four to a turn
\* (Deciding, pre-hook, Dispatching, post-hook); when every Deciding step
\* returns a non-empty batch the loop is aborted after exactly N graph steps,
\* that is after exactly ceil(N / 4) Deciding steps, never one more and never
\* fewer.
C3_AbortAfterNGraphSteps ==
    BudgetAbort => (step = recursion_limit /\ decides = (recursion_limit + 3) \div 4)

\* a budget of 9 is used up in the third turn
C3_Witness ==
    BudgetAbort /\ pc = "raised" /\ recursion_limit = 9 /\ decides = 3

\* C4: the report of an aborted trial (budget used up, or the model call
\* raised) carries the transcript accumulated up to the abort: its messages,
\* its message_count and its tool-call count are those of every entry
\* recorded before the abort.
C4_AbortedReportKeepsTranscript ==
    (report.made /\ ~report.finished) =>
        /\ report.messages = all_messages
        /\ report.message_count = Len(all_messages)
        /\ report.tool_calls_total = _count_tool_calls(all_messages)

\* the report of a trial aborted in its second turn: no message, while the
\* transcript of the trial holds the goal, a request and its result
C4_Witness ==
    /\ report.made /\ ~report.finished /\ decides >= 2
    /\ report.messages = <<>> /\ report.message_count = 0
    /\ Len(all_messages) >= 3

C6_MalformedRequestNeverAborts ==
    pc = "raised" => exc \in {"Recursion limit reached", "Connection error."}

\* the pre-hook raised on a list_flights whose dep is a list
C6_Witness ==
    /\ pc = "raised" /\ exc = TypeError /\ node = "pre_tool"
    /\ \E i \in 1..Len(messages[Len(messages)].tool_calls) :
         messages[Len(messages)].tool_calls[i].start = ListVal

\* the transcript and the signatures run_stateful_trial holds
Transcript == [all |-> all_messages, seen |-> seen]

\* the entries a payload of the stream can carry in this state
Entries ==
    {all_messages[i] : i \in 1..Len(all_messages)}
    \cup {messages[i] : i \in 1..Len(messages)}
    \cup {AIMessage(decides + 1, "final answer", <<>>)}

\* C7: observing an entry again leaves the transcript as observing it once
\* left it, same length, same contents, same order, wherever in the stream
\* the repetition comes: straight after, or with another entry in between.
C7_AppendIdempotent ==
    \A m \in Entries :
        LET once == ObserveOne(Transcript, m)
        IN  /\ ObserveOne(once, m) = once
            /\ \A i \in 1..Len(messages) :
                 Observe(Transcript, <<m, messages[i], m>>) = Observe(once, <<messages[i]>>)

\* a tool result delivered by the tools step and again, in the window of the
\* next assistant step, stands once in the transcript
C7_Witness ==
    /\ decides >= 2 /\ node = "pre_tool"
    /\ \E i \in 1..Len(all_messages) :
         /\ all_messages[i].type = "tool"
         /\ \A j \in 1..Len(all_messages) : all_messages[j] = all_messages[i] => j = i

\* the records of the ledger: (list, position)
LedgerKeys == {"weather_checks"} \cup {k \o suf : k \in {"flights", "hotels"},
                                                  suf \in {"_01_08", "_02_09", "_03_10"}}

LedgerSize(st) == SeqSum([i \in 1..7 |->
    Len(st[<<"weather_checks", "flights_01_08", "flights_02_09", "flights_03_10",
             "hotels_01_08", "hotels_02_09", "hotels_03_10">>[i]])])

\* the request is one the ledger records: a weather check of a named city
\* or a search over one of the three candidate spans
Recordable(tc) ==
    \/ tc.name = "get_weather_summary" /\ tc.city \notin {Missing, ListVal, NoneStr, ""}
    \/ /\ tc.name \in {"list_flights", "list_hotels"}
       /\ <<tc.start, tc.end>> \in { <<"2025-10-01", "2025-10-08">>,
                                     <<"2025-10-02", "2025-10-09">>,
                                     <<"2025-10-03", "2025-10-10">> }

\* C8 (as stated): the ledger never holds two records of one action with
\* one key: no two weather checks of one city, and no two searches of one
\* kind for one destination and span.
C8_OneRecordPerKey ==
    /\ \A i, j \in 1..Len(state.weather_checks) :
         state.weather_checks[i].city = state.weather_checks[j].city => i = j
    /\ \A suf \in {"_01_08", "_02_09", "_03_10"} :
         /\ \A i, j \in 1..Len(state["flights" \o suf]) :
              state["flights" \o suf][i].destination = state["flights" \o suf][j].destination
                 => i = j
         /\ \A i, j \in 1..Len(state["hotels" \o suf]) :
              state["hotels" \o suf][i].city = state["hotels" \o suf][j].city => i = j

\* C8 (amended): the ledger is a log of the requests issued: every request
\* it records adds one new record, also when its (action_name, canonical_key)
\* equals that of a record already Resolved, so the pre-hook of a batch
\* grows the ledger by the number of recordable requests of the batch and
\* leaves the records it held as they were.
C8_EveryRequestAddsARecord ==
    [][(node = "pre_tool" /\ node' = "tools") =>
         LET tcs == messages[Len(messages)].tool_calls
         IN  /\ LedgerSize(state') =
                  LedgerSize(state) + Cardinality({i \in 1..Len(tcs) : Recordable(tcs[i])})
             /\ \A k \in LedgerKeys :
                  SubSeq(state'[k], 1, Len(state[k])) = state[k]]_vars

\* a second record for Bangkok next to one already Resolved
C8_Witness ==
    /\ Len(state.weather_checks) >= 2
    /\ state.weather_checks[1].city = "Bangkok" /\ state.weather_checks[1].summary # NoneStr
    /\ state.weather_checks[2].city = "Bangkok"

\* every tool call issued so far has run: the loop is past Dispatching
Settled == node \in {"post_tool", "assistant", "__end__"}

\* the requests of the transcript for the weather of Bangkok: (entry, call)
BangkokRequests ==
    {ik \in (1..Len(all_messages)) \X (1..MaxBatch + 1) :
        /\ all_messages[ik[1]].type = "ai"
        /\ ik[2] <= Len(all_messages[ik[1]].tool_calls)
        /\ all_messages[ik[1]].tool_calls[ik[2]].name = "get_weather_summary"
        /\ all_messages[ik[1]].tool_calls[ik[2]].city = "Bangkok"}

BangkokRequestIds ==
    {all_messages[ik[1]].tool_calls[ik[2]].id : ik \in BangkokRequests}

\* the result entries of the transcript for the weather of Bangkok
BangkokResults ==
    {i \in 1..Len(all_messages) :
        /\ all_messages[i].type = "tool"
        /\ all_messages[i].name = "get_weather_summary"
        /\ all_messages[i].content.t = "weather"
        /\ all_messages[i].content.city = "Bangkok"}

\* the same weather request stands in two entries of the agent
AskedInTwoTurns ==
    \E a, b \in BangkokRequests : a[1] # b[1]

\* the tool calls carried by the agent entries of the transcript
RequestsKept ==
    SeqSum([i \in 1..Len(all_messages) |-> Len(all_messages[i].tool_calls)])

\* C9 (as stated): when the agent asks for the weather of the same city in
\* two turns of a trial, the transcript holds both requests and one result
\* entry for them.
C9_OneResultForRepeatedRequest ==
    (Settled /\ AskedInTwoTurns) =>
        (RequestsKept = calls /\ Cardinality(BangkokResults) = 1)

\* C9 (amended): when the agent asks for the weather of the same city in
\* two turns of a trial, the transcript holds both requests and one result
\* entry per request id: two result entries when the two requests carry
\* different ids, a single one only when they carry the same id.
C9_OneResultPerRequestId ==
    (Settled /\ AskedInTwoTurns) =>
        (RequestsKept = calls
         /\ Cardinality(BangkokResults) = Cardinality(BangkokRequestIds))

\* two turns asked for Bangkok under two ids and the transcript holds two results
C9_Witness ==
    /\ Settled /\ AskedInTwoTurns
    /\ Cardinality(BangkokRequestIds) = 2 /\ Cardinality(BangkokResults) = 2

\* the value is a confirmation of the kind, not an error, whose dates are
\* one of the three candidate spans
CandidateBooking(b, kind, f_start, f_end) ==
    /\ b.t = kind
    /\ <<b[f_start], b[f_end]>> \in { <<"2025-10-01", "2025-10-08">>,
                                      <<"2025-10-02", "2025-10-09">>,
                                      <<"2025-10-03", "2025-10-10">> }

\* C10: flight_booking is set only to the result of a book_flight that is a
\* confirmation on a candidate span, and hotel_booking only to such a result
\* of a book_hotel; an error result, or a confirmation on another span, is
\* never promoted.
C10_PromotionGuard ==
    /\ state.flight_booking # None =>
         /\ CandidateBooking(state.flight_booking, "flight", "departure", "ret")
         /\ \E i \in 1..Len(all_messages) :
              /\ all_messages[i].name = "book_flight"
              /\ all_messages[i].content = state.flight_booking
    /\ state.hotel_booking # None =>
         /\ CandidateBooking(state.hotel_booking, "hotel", "check_in", "check_out")
         /\ \E i \in 1..Len(all_messages) :
              /\ all_messages[i].name = "book_hotel"
              /\ all_messages[i].content = state.hotel_booking

\* a flight booked on 10-03 -> 10-10 is promoted while the results of a
\* failed book_flight and of a book_hotel on 10-01 -> 10-08 were not
C10_Witness ==
    /\ state.flight_booking # None /\ state.hotel_booking = None
    /\ node = "assistant"
    /\ \E i \in 1..Len(all_messages) :
         all_messages[i].name = "book_hotel" /\ all_messages[i].content.t = "hotel"

\* C11: once selected_city is set it keeps its value to the end of the
\* trial, whatever searches for other candidate cities follow.
C11_FirstWriterWins ==
    [][(state.selected_city # NoneStr /\ run_id' = run_id)
          => state'.selected_city = state.selected_city]_vars

\* Bangkok was selected and a later search for Dubai was recorded
C11_Witness ==
    /\ state.selected_city = "BKK"
    /\ \E i \in 1..Len(state.flights_03_10) :
         /\ state.flights_03_10[i].destination = "DXB"
         /\ \E k \in LedgerKeys \ {"weather_checks"} : Len(state[k]) >= 1 /\ k # "flights_03_10"

\* the post-hook of the last cycle has completed
CycleDone == pc = "stream" /\ node = "assistant" /\ decides >= 1

\* C12: once the post-hook of a cycle has completed, every record the
\* pre-hook created is Resolved: no weather check is left with a null
\* summary and no search with a null result, whatever the action returned.
C12_EveryRecordResolved ==
    CycleDone =>
        /\ \A i \in 1..Len(state.weather_checks) : state.weather_checks[i].summary # NoneStr
        /\ \A k \in LedgerKeys \ {"weather_checks"} :
             \A i \in 1..Len(state[k]) : state[k][i].result # NoneStr

\* the weather check for an unknown city came back as an error and its
\* record still has a null summary after the post-hook
C12_Witness ==
    /\ CycleDone
    /\ \E i \in 1..Len(state.weather_checks) :
         /\ state.weather_checks[i].city = "Atlantis"
         /\ state.weather_checks[i].summary = NoneStr
    /\ \E j \in 1..Len(all_messages) :
         /\ all_messages[j].type = "tool" /\ all_messages[j].name = "get_weather_summary"
         /\ all_messages[j].content.t = "str"

\* the results of the batch, by position, that post_tool_update promotes
PromotedAt(name, kind, f_start, f_end) ==
    {i \in 1..Len(messages) :
        /\ messages[i].type = "tool" /\ messages[i].name = name
        /\ messages[i].content.t = kind
        /\ messages[i].content[f_start] = "2025-10-03"
        /\ messages[i].content[f_end] = "2025-10-10"}

\* the result of the batch that resolves the j-th record of list k: the
\* n-th result carrying the record's id, for the n-th open record with it
ResolverOf(k, name, j) ==
    LET rank == Cardinality({j2 \in 1..j : /\ state[k][j2].result = NoneStr
                                           /\ state[k][j2].id = state[k][j].id})
        hits == {i \in 1..Len(messages) :
                    /\ messages[i].name = name
                    /\ messages[i].tool_call_id = state[k][j].id}
    IN  {i \in hits : Cardinality({i2 \in hits : i2 <= i}) = rank}

\* C13: the post-hook applies the results of a batch first-emitted first:
\* of several bookings it promotes, the one emitted last is the booking the
\* Trial State ends with, and the open records of a search list are resolved
\* in order, the n-th open record with an id by the n-th result with that id.
C13_ResultsAppliedInEmissionOrder ==
    [][(node = "post_tool" /\ node' = "assistant") =>
         LET F == PromotedAt("book_flight", "flight", "departure", "ret")
             H == PromotedAt("book_hotel", "hotel", "check_in", "check_out")
         IN  /\ F # {} => state'.flight_booking =
                            messages[CHOOSE i \in F : \A i2 \in F : i2 <= i].content
             /\ H # {} => state'.hotel_booking =
                            messages[CHOOSE i \in H : \A i2 \in H : i2 <= i].content
             /\ \A kind \in {"flights", "hotels"}, suf \in {"_01_08", "_02_09", "_03_10"} :
                  LET k == kind \o suf
                      name == IF kind = "flights" THEN "list_flights" ELSE "list_hotels"
                      nothing == IF kind = "flights" THEN "No flights found"
                                 ELSE "No hotels found"
                  IN  \A j \in 1..Len(state[k]) :
                         (state[k][j].result = NoneStr /\ state'[k][j].result # NoneStr) =>
                            \E i \in ResolverOf(k, name, j) :
                               state'[k][j].result = SearchResult(messages[i].content, nothing)]_vars

\* a batch of two bookings of the flight, both confirmed: the Trial State
\* holds the confirmation of the second
C13_Witness ==
    /\ node = "assistant" /\ Len(messages) = 2
    /\ PromotedAt("book_flight", "flight", "departure", "ret") = {1, 2}
    /\ messages[1].content # messages[2].content
    /\ state.flight_booking = messages[2].content

\* the moves of the loop: Deciding (assistant), Dispatching (pre_tool),
\* AwaitingResults (tools), Updating (post_tool), and Done (__end__)
PhaseMoves ==
    { <<"assistant", "pre_tool">>, <<"pre_tool", "tools">>, <<"tools", "post_tool">>,
      <<"post_tool", "assistant">>, <<"assistant", "__end__">> }

\* C14: within a trial the loop only moves Deciding -> Dispatching ->
\* AwaitingResults -> Updating -> Deciding (or Deciding -> Done); the agent
\* is called only in Deciding, the Trial State and the ledger change only in
\* the two hooks, the stores and the tool results only in AwaitingResults,
\* and a batch reaches AwaitingResults only after its pre-hook has recorded
\* it, so nothing of turn k+1 runs before the post-hook of turn k is done.
C14_PhaseOrdering ==
    [][(pc = "stream" /\ run_id' = run_id) =>
         /\ node' # node => <<node, node'>> \in PhaseMoves
         /\ decides' # decides => node = "assistant"
         /\ state' # state => node \in {"pre_tool", "post_tool"}
         /\ (flights' # flights \/ hotels' # hotels) => node = "tools"
         /\ (node' = "tools" /\ node # "tools") =>
              (node = "pre_tool" /\
               LedgerSize(state') = LedgerSize(state) +
                  Cardinality({i \in 1..Len(messages[Len(messages)].tool_calls) :
                                  Recordable(messages[Len(messages)].tool_calls[i])}))]_vars

\* the second turn's batch is in AwaitingResults with the first turn's
\* request Resolved and its own recorded
C14_Witness ==
    /\ pc = "stream" /\ node = "tools" /\ decides = 2
    /\ Len(state.weather_checks) = 2
    /\ state.weather_checks[1].summary # NoneStr
    /\ state.weather_checks[2].summary = NoneStr

\* the agent's first reply is a final answer: no tool call
FinalOnFirstTurn ==
    /\ decides = 1 /\ calls = 0 /\ exc = ""
    /\ messages # <<>> /\ messages[Len(messages)].type = "ai"
    /\ messages[Len(messages)].tool_calls = <<>>

TripBooked ==
    /\ \E i \in 1..Len(all_messages) :
         /\ all_messages[i].type = "tool" /\ all_messages[i].tool_call_id = "call_1"
         /\ all_messages[i].content = [t |-> "list", items |-> <<>>]
    /\ \E i \in 1..Len(all_messages) :
         /\ all_messages[i].type = "tool" /\ all_messages[i].tool_call_id = "call_2"
         /\ all_messages[i].content.t = "list" /\ all_messages[i].content.items # <<>>
    /\ \E i \in 1..Len(all_messages) :
         /\ all_messages[i].type = "ai"
         /\ {"book_flight", "book_hotel"} \subseteq
               {all_messages[i].tool_calls[k].name : k \in 1..Len(all_messages[i].tool_calls)}
    /\ \E i \in 1..Len(all_messages) :
         all_messages[i].name = "book_flight" /\ all_messages[i].content.t = "flight"
    /\ \E i \in 1..Len(all_messages) :
         all_messages[i].name = "book_hotel" /\ all_messages[i].content.t = "hotel"

\* C16: after that scenario, run from a reset store, the goal predicate
\* returns success = true, and the two confirmations it matched are records
\* of the stores carrying 2025-10-03 -> 2025-10-10.
C16_EndToEndSuccess ==
    (menu = TripMenu /\ TripBooked /\ goal.made) =>
        /\ goal.success
        /\ \E i \in 1..Len(flights) :
             /\ flights[i].confirmation_id = goal.flight_conf
             /\ FlightSpanAt(i) = <<"2025-10-03", "2025-10-10">>
        /\ \E j \in 1..Len(hotels) :
             /\ hotels[j].confirmation_id = goal.hotel_conf
             /\ HotelSpanAt(j) = <<"2025-10-03", "2025-10-10">>

\* the scenario ran to its final answer and was evaluated
C16_Witness ==
    menu = TripMenu /\ TripBooked /\ goal.made /\ report.finished /\ decides = 4

C18_TrialStartsClean ==
    [][(pc = "main" /\ pc' = "stream") =>
         /\ node' = "assistant" /\ step' = 0 /\ decides' = 0
         /\ Len(all_messages') = 1 /\ all_messages'[1].type = "human"
         /\ messages' = all_messages'
         /\ LedgerSize(state') = 0 /\ state'.selected_city = NoneStr
         /\ state'.flight_booking = None /\ state'.hotel_booking = None
         /\ flights' = <<>> /\ hotels' = <<>>]_vars

\* the second trial is about to start while the stores hold the
\* confirmations the first trial wrote
C18_Witness ==
    /\ pc = "main" /\ run_id = 2
    /\ flights # <<>> /\ hotels # <<>>
    /\ flights[1] # LeftoverFlight /\ hotels[1] # LeftoverHotel

\* the record is the content of a tool result of this trial's transcript
WrittenByThisTrial(rec, name) ==
    \E i \in 1..Len(all_messages) :
        /\ all_messages[i].type = "tool" /\ all_messages[i].name = name
        /\ all_messages[i].content = rec

\* C19: within the run harness nothing touches the stores between a
\* trial's reset and its evaluation but the trial itself: the stores are
\* emptied only when a trial starts, and from then to the trial's report
\* every confirmation they hold was written by a booking of that trial, so
\* the verdict rests on that trial's confirmations alone.
C19_NoInterleavedReset ==
    /\ [][((flights # <<>> /\ flights' = <<>>) \/ (hotels # <<>> /\ hotels' = <<>>))
            => (pc = "main" /\ pc' = "stream")]_vars
    /\ [](pc \in {"stream", "returned", "raised", "reported"} =>
            /\ \A i \in 1..Len(flights) : WrittenByThisTrial(flights[i], "book_flight")
            /\ \A j \in 1..Len(hotels) : WrittenByThisTrial(hotels[j], "book_hotel"))

\* the second trial of a run evaluated to success on its own confirmations
C19_Witness ==
    /\ run_id = 2 /\ pc = "reported" /\ goal.success
    /\ goal.flight_conf = flights[1].confirmation_id
    /\ goal.hotel_conf = hotels[1].confirmation_id

\* the loop stands between two cycles
BetweenCycles == pc = "stream" /\ node = "assistant"

\* C20 (as stated): the counter the budget is checked against advances by
\* one per completed Deciding -> Updating cycle.
C20_OneStepPerCycle ==
    BetweenCycles => step = decides

\* C20 (amended): the counter the budget is checked against, the number of
\* graph steps, advances by exactly four per completed Deciding -> Updating
\* cycle, one for each node run (assistant, pre_tool, tools, post_tool),
\* independent of how many requests the batch of that cycle contained.
C20_FourStepsPerCycle ==
    /\ BetweenCycles => step = 4 * decides
    /\ pc = "stream" =>
         step = 4 * (decides - 1) + (CASE node = "pre_tool" -> 1 [] node = "tools" -> 2
                                       [] node = "post_tool" -> 3 [] OTHER -> 4)
            \/ node \in {"assistant", "__end__"}

\* two cycles done, one with a batch of one request and one with a batch of two
C20_Witness ==
    BetweenCycles /\ decides = 2 /\ step = 8 /\ calls = 3

\* the trial is over: Done (run_stateful_trial returned) or Aborted (it raised)
TrialOver == pc \in {"returned", "raised"}

\* C21: every trial terminates: the graph never runs more than
\* recursion_limit steps, a running trial eventually reaches Done or
\* Aborted, and from there on the loop takes no step: the next thing that
\* happens is the report of the trial, with the loop's state left as it was.
C21_TrialTerminates ==
    /\ [](step <= recursion_limit)
    /\ (pc = "stream") ~> TrialOver
    /\ [][TrialOver => (pc' = "reported" /\ UNCHANGED <<node, step, decides, calls,
                                                       messages, state, all_messages,
                                                       flights, hotels>>)]_vars

\* a trial aborted by a budget of 9 in its third turn
C21_Witness ==
    /\ pc = "raised" /\ exc = "Recursion limit reached"
    /\ recursion_limit = 9 /\ step = 9 /\ node = "pre_tool"

\* the searches among the calls of the batch the pre-hook is about to record
SearchesOfBatch ==
    {i \in 1..Len(messages[Len(messages)].tool_calls) :
        messages[Len(messages)].tool_calls[i].name \in {"list_flights", "list_hotels"}}

\* the search names no candidate span: its dates are strings, or missing,
\* that are not one of the three spans
OffSpanSearch(tc) ==
    /\ tc.name \in {"list_flights", "list_hotels"}
    /\ tc.start # ListVal /\ tc.end # ListVal
    /\ ~Recordable(tc)

\* C22 (as stated): a search whose dates are not one of the candidate spans,
\* or are missing, is still recorded in the ledger: the pre-hook of a batch
\* adds a record for every search of the batch.
C22_EverySearchRecorded ==
    [][(node = "pre_tool" /\ node' = "tools") =>
          LedgerSize(state') >= LedgerSize(state) + Cardinality(SearchesOfBatch)]_vars

\* C22 (amended): a search whose dates are strings, or missing, that do not
\* form one of the candidate spans is not recorded in the ledger, which has
\* lists for the three candidate spans only: the pre-hook of a batch made of
\* such searches leaves every list as it was; the search is still
\* dispatched and answered.
C22_OffSpanSearchDispatchedUnrecorded ==
    /\ [][(node = "pre_tool" /\ node' = "tools"
           /\ \A i \in 1..Len(messages[Len(messages)].tool_calls) :
                OffSpanSearch(messages[Len(messages)].tool_calls[i]))
            => \A k \in LedgerKeys : state'[k] = state[k]]_vars
    /\ [][(node = "tools" /\ node' = "post_tool") =>
            \A i \in 1..Len(messages[Len(messages)].tool_calls) :
               OffSpanSearch(messages[Len(messages)].tool_calls[i]) =>
                  /\ messages'[i].type = "tool"
                  /\ messages'[i].tool_call_id = messages[Len(messages)].tool_calls[i].id
                  /\ messages'[i].content.t = "list"]_vars

\* the search of hotels for 10-04 -> 10-11 was dispatched and answered, and
\* the ledger holds no record at all
C22_Witness ==
    /\ node = "assistant" /\ decides = 1 /\ LedgerSize(state) = 0
    /\ \E i \in 1..Len(all_messages) :
         /\ all_messages[i].type = "tool" /\ all_messages[i].name = "list_hotels"
         /\ all_messages[i].content.t = "list"


\* the kinds of action the Trial State has no attempt list for
UnloggedKinds == {"book_flight", "book_hotel", "convert_currency"}

C24_ContextIsLastTen ==
    [][decides' = decides + 1 =>
          LET L == Len(messages)
              n == IF L < 10 THEN L ELSE 10
          IN  /\ Len(context') = n
              /\ \A i \in 1..n : context'[i] = messages[L - n + i]]_vars

\* the agent decided on a list of 12 messages and was given 10 of them,
\* not all alike
C24_Witness ==
    /\ decides = 2 /\ Len(context) = 10
    /\ \E i \in 1..Len(messages) : messages[i].type = "tool" /\ i >= 12
    /\ context[1] # context[2]


\* the field of a record of list k that holds its result
ResultField(k) == IF k = "weather_checks" THEN "summary" ELSE "result"

\* the request_ids of the Pending records of list k of the Trial State st
PendingIds(st, k) ==
    {st[k][i].id : i \in {j \in 1..Len(st[k]) : st[k][j][ResultField(k)] = NoneStr}}

\* the Trial State when the post-hook reaches the j-th result of the batch
StateBefore(j) == PostFold(state, SubSeq(messages, 1, j - 1))

\* C25: a result whose request_id matches no Pending record (the record is
\* already Resolved, or the request was never recorded) leaves every record
\* of the ledger as it was: the post-hook changes a list only when one of
\* the results it handles carries the request_id of a Pending record of
\* that list.
C25_UnmatchedResultIsNoOp ==
    /\ [](node = "post_tool" =>
            \A j \in 1..Len(messages) :
               (\A k \in LedgerKeys :
                   messages[j].tool_call_id \notin PendingIds(StateBefore(j), k))
                 => \A k \in LedgerKeys :
                       PostApply(StateBefore(j), messages[j])[k] = StateBefore(j)[k])
    /\ [][(node = "post_tool" /\ node' = "assistant") =>
            \A k \in LedgerKeys :
               (\A j \in 1..Len(messages) :
                   messages[j].tool_call_id \notin PendingIds(state, k))
                 => state'[k] = state[k]]_vars

\* a hotel search outside the candidate spans was answered under call_2
\* while the only record with that request_id was already Resolved to H3,
\* and the record still holds H3
C25_Witness ==
    /\ node = "assistant" /\ decides = 2
    /\ Len(messages) = 1 /\ messages[1].name = "list_hotels"
    /\ messages[1].tool_call_id = "call_2" /\ messages[1].content.items = <<>>
    /\ Len(state.hotels_03_10) = 1
    /\ state.hotels_03_10[1].id = "call_2" /\ state.hotels_03_10[1].result = "H3"


\* C26 (as stated): the result stored in a record is the result of that
\* record's own request: a Resolved weather check holds the summary of its
\* own city and a Resolved search holds what its own destination and span
\* return, also when two requests of one batch carry the same request_id.
C26_ResultIsOfOwnRequest ==
    /\ \A i \in 1..Len(state.weather_checks) :
         LET e == state.weather_checks[i]
         IN  e.summary # NoneStr =>
                /\ Title(e.city) \in DOMAIN SUMMARY_BY_CITY
                /\ e.summary = SUMMARY_BY_CITY[Title(e.city)]
    /\ \A suf \in {"_01_08", "_02_09", "_03_10"} :
         /\ \A i \in 1..Len(state["flights" \o suf]) :
              LET e == state["flights" \o suf][i]
              IN  e.result # NoneStr =>
                     e.result = SearchResult(list_flights(e.destination, e.departure, e.ret),
                                             "No flights found")
         /\ \A i \in 1..Len(state["hotels" \o suf]) :
              LET e == state["hotels" \o suf][i]
              IN  e.result # NoneStr =>
                     e.result = SearchResult(list_hotels(e.city, e.checkin, e.checkout),
                                             "No hotels found")

\* two flight searches of one batch carried call_1: the record of the
\* search for 10-03 -> 10-10 holds "No flights found", the result of the
\* search for 10-01 -> 10-08, while the tool answered it with F3
C26_Witness ==
    /\ node = "assistant" /\ decides = 1
    /\ Len(state.flights_03_10) = 1
    /\ state.flights_03_10[1].destination = "BKK"
    /\ state.flights_03_10[1].result = "No flights found"
    /\ \E i \in 1..Len(all_messages) :
         /\ all_messages[i].name = "list_flights"
         /\ all_messages[i].content.t = "list" /\ all_messages[i].content.items = <<"F3">>


\* C27: within a trial the ledger is append-only and Resolved is final: no
\* step of the loop removes a record or changes its key or request_id, and
\* a record whose result is set is never changed again, also by a later
\* result that carries its request_id.
C27_AppendOnlyResolvedFinal ==
    [][pc = "stream" =>
         \A k \in LedgerKeys :
            /\ Len(state'[k]) >= Len(state[k])
            /\ \A i \in 1..Len(state[k]) :
                 /\ [state'[k][i] EXCEPT ![ResultField(k)] = NoneStr]
                      = [state[k][i] EXCEPT ![ResultField(k)] = NoneStr]
                 /\ state[k][i][ResultField(k)] # NoneStr => state'[k][i] = state[k][i]]_vars

\* the search for 10-01 -> 10-08 was resolved under call_1 in the first
\* turn, the search for 10-03 -> 10-10 was resolved under call_1 in the
\* second, and the first record still holds its own result
C27_Witness ==
    /\ node = "assistant" /\ decides = 2
    /\ Len(state.flights_01_08) = 1 /\ Len(state.flights_03_10) = 1
    /\ state.flights_01_08[1].id = "call_1"
    /\ state.flights_01_08[1].result = "No flights found"
    /\ state.flights_03_10[1].id = "call_1" /\ state.flights_03_10[1].result = "F3"


\* the selected destination is unset or a candidate destination code
SelectionInRange == state.selected_city \in {NoneStr} \cup CityCodes

\* C28 (as stated): the selected destination is always unset or one of BKK,
\* DXB, REK, and it becomes set only in the Updating phase, from a search
\* result: a search request whose result has not been received never sets it.
C28_SelectedOnlyFromResult ==
    /\ [](SelectionInRange)
    /\ [][(pc = "stream" /\ state'.selected_city # state.selected_city) =>
            /\ node = "post_tool"
            /\ \E i \in 1..Len(messages) :
                 messages[i].name \in {"list_flights", "list_hotels"}]_vars

\* C28 (amended): the selected destination is always unset or one of BKK,
\* DXB, REK, and it becomes set only in the Dispatching phase, from a search
\* request of the batch that names that destination, before the result of
\* the search is received; a search result, a weather check, a currency
\* conversion or a booking never sets it.
C28_SelectedOnlyFromSearchRequest ==
    /\ [](SelectionInRange)
    /\ [][(pc = "stream" /\ state'.selected_city # state.selected_city) =>
            /\ node = "pre_tool" /\ node' = "tools"
            /\ \E i \in 1..Len(messages[Len(messages)].tool_calls) :
                 LET tc == messages[Len(messages)].tool_calls[i]
                 IN  /\ tc.name \in {"list_flights", "list_hotels"}
                     /\ tc.city = state'.selected_city]_vars

\* a first batch with a search for Bangkok has been recorded and not yet
\* dispatched: the destination is selected and no result exists
C28_Witness ==
    /\ node = "tools" /\ decides = 1 /\ state.selected_city = "BKK"
    /\ \A i \in 1..Len(all_messages) : all_messages[i].type # "tool"


\* the confirmations the bookings of the batch returned, by kind
ReturnedBy(msgs, kind) ==
    {msgs[i].content : i \in {j \in 1..Len(msgs) : msgs[j].content.t = kind}}

\* the records of a store
RecordsOf(store) == {store[i] : i \in 1..Len(store)}

ReturnedInTrial(kind) ==
    {all_messages[i].content :
        i \in {j \in 1..Len(all_messages) :
                 all_messages[j].type = "tool" /\ all_messages[j].content.t = kind}}

\* C30 (as stated): no confirmation is lost: when the trial is evaluated,
\* every confirmation record a successful booking returned during the trial
\* is in the persisted store of its kind, also when two bookings of one kind
\* ran in one batch.
C30_NoLostConfirmation ==
    pc = "reported" =>
        /\ ReturnedInTrial("flight") \subseteq RecordsOf(flights)
        /\ ReturnedInTrial("hotel") \subseteq RecordsOf(hotels)

\* two flight bookings of one batch returned two confirmation_ids and the
\* evaluated store holds one record
C30_Witness ==
    /\ pc = "reported" /\ Len(flights) = 1
    /\ \E r1, r2 \in ReturnedInTrial("flight") : r1.confirmation_id # r2.confirmation_id
    /\ \E i \in 1..Len(all_messages) :
         /\ all_messages[i].type = "ai" /\ Len(all_messages[i].tool_calls) = 2
         /\ \A k \in 1..2 : all_messages[i].tool_calls[k].name = "book_flight"


\* C31 (as stated): at the end of a trial that ran to Done the Trial State
\* holds a promoted flight_booking and a promoted hotel_booking if and only
\* if the goal predicate returns success on the persisted confirmations.
C31_StateAgreesWithStore ==
    (pc = "reported" /\ report.finished) =>
        ((state.flight_booking # None /\ state.hotel_booking # None) <=> goal.success)

\* a trial ran to Done with both bookings promoted in the Trial State, the
\* flight store holds one record, not of the target span, and the goal
\* predicate returned failure
C31_Witness ==
    /\ pc = "reported" /\ report.finished
    /\ state.flight_booking # None /\ state.hotel_booking # None
    /\ Len(flights) = 1 /\ flights[1].departure = "2025-10-02"
    /\ ~goal.success /\ ~report.success


\* C32: the success of a trial report depends only on the confirmations
\* persisted when the trial is evaluated, not on how the loop ended: a
\* report, of a finished trial or of an aborted one, says success exactly
\* when the flight store holds a record for 2025-10-03 -> 2025-10-10 and the
\* hotel store holds one too.
C32_VerdictIgnoresHowTheLoopEnded ==
    report.made => (report.success <=> (HasTargetFlight /\ HasTargetHotel))

\* a trial aborted by a raise of the model after both bookings of the
\* target span were persisted is reported with success
C32_Witness ==
    /\ pc = "reported" /\ report.made /\ ~report.finished /\ report.error # ""
    /\ HasTargetFlight /\ HasTargetHotel
    /\ report.success


\* C33 (as stated): deduplication suppresses only true duplicates: an
\* observed entry is dropped only when the transcript already holds an entry
\* equal to it in role, correlation id, name, id and full payload, so after
\* every payload of the stream each of its messages is in the transcript;
\* and the transcript only grows at its end.
C33_OnlyTrueDuplicatesDropped ==
    [][(pc = "stream" /\ messages' # messages) =>
          /\ \A i \in 1..Len(messages') :
               \E j \in 1..Len(all_messages') : all_messages'[j] = messages'[i]
          /\ Len(all_messages') >= Len(all_messages)
          /\ SubSeq(all_messages', 1, Len(all_messages)) = all_messages]_vars

\* the tools answered two weather checks of one batch with error texts that
\* differ past their 2048th character, and the transcript holds the first
\* of the two only
C33_Witness ==
    /\ node = "post_tool" /\ Len(messages) = 2
    /\ messages[1].content # messages[2].content
    /\ Cut2048(messages[1].content) = Cut2048(messages[2].content)
    /\ \E j \in 1..Len(all_messages) : all_messages[j] = messages[1]
    /\ \A j \in 1..Len(all_messages) : all_messages[j] # messages[2]

====
